---- MODULE Spec2Model ----
(***************************************************************************)
(* Model of app.py: the /analyze request handler, its time-boxed cache and *)
(* the two scorers (rational, adaptive).                                   *)
(*                                                                         *)
(* Conventions.                                                            *)
(*  - A Python dict is a TLA+ function whose DOMAIN is its set of keys;    *)
(*    Get(d, k, default) is dict.get.                                      *)
(*  - A value of the fundamentals dict is a tagged record PyNum/PyNone/    *)
(*    PyStr; numbers are fixed-point HUNDREDTHS (2500 is 25.00), prices    *)
(*    are cents.  The scorers' threshold tests are evaluated exactly on    *)
(*    these integers.                                                      *)
(*  - The handler's weight arithmetic (lines 152, 163-164, 205-206) is     *)
(*    Python float arithmetic: it is modelled as IEEE-754 binary64 with    *)
(*    round-to-nearest-even, on arbitrary-precision naturals.             *)
(*  - A string that the code inspects (the ticker, an error text) is a     *)
(*    sequence of one-character strings.                                   *)
(*  - Time is in minutes.                                                  *)
(***************************************************************************)
EXTENDS Integers, Sequences, FiniteSets, TLC

(***************************************************************************)
(* Arbitrary-precision naturals: sequences of 15-bit limbs, least          *)
(* significant first, canonical when the last limb is not 0 (zero is       *)
(* << >>).  They carry the 53-bit significands of Python floats.           *)
(***************************************************************************)
Limb == 2 ^ 15

RECURSIVE BStrip(_)
BStrip(x) ==
  IF x = << >> THEN << >>
  ELSE IF x[Len(x)] # 0 THEN x
  ELSE BStrip(SubSeq(x, 1, Len(x) - 1))

RECURSIVE BFromNat(_)
BFromNat(n) == IF n = 0 THEN << >> ELSE <<n % Limb>> \o BFromNat(n \div Limb)

RECURSIVE BToNat(_)
BToNat(x) == IF x = << >> THEN 0 ELSE Head(x) + Limb * BToNat(Tail(x))

\* The limb at position i of x, zero beyond its length.
BLimb(x, i) == IF i <= Len(x) THEN x[i] ELSE 0

\* The limbs of x + y from position i on, with carry c.
RECURSIVE BAddC(_, _, _, _)
BAddC(x, y, i, c) ==
  IF i > Len(x) /\ i > Len(y)
  THEN IF c = 0 THEN << >> ELSE <<c>>
  ELSE <<(BLimb(x, i) + BLimb(y, i) + c) % Limb>>
       \o BAddC(x, y, i + 1, (BLimb(x, i) + BLimb(y, i) + c) \div Limb)

BAdd(x, y) == BAddC(x, y, 1, 0)

\* The limbs of x - y (x >= y) from position i on, with borrow b.
RECURSIVE BSubB(_, _, _, _)
BSubB(x, y, i, b) ==
  IF i > Len(x) THEN << >>
  ELSE <<(x[i] - BLimb(y, i) - b) % Limb>>
       \o BSubB(x, y, i + 1, IF x[i] - BLimb(y, i) - b < 0 THEN 1 ELSE 0)

BSub(x, y) == BStrip(BSubB(x, y, 1, 0))

\* -1, 0, 1 as x <, =, > y (both canonical).
RECURSIVE BCmpSame(_, _, _)
BCmpSame(x, y, i) ==
  IF i = 0 THEN 0
  ELSE IF x[i] > y[i] THEN 1
  ELSE IF x[i] < y[i] THEN -1
  ELSE BCmpSame(x, y, i - 1)

BCmp(x, y) ==
  IF Len(x) > Len(y) THEN 1
  ELSE IF Len(x) < Len(y) THEN -1
  ELSE BCmpSame(x, y, Len(x))

\* x * k for 0 < k < Limb.
RECURSIVE BMulC(_, _, _)
BMulC(x, k, c) ==
  IF x = << >> THEN IF c = 0 THEN << >> ELSE <<c>>
  ELSE <<(Head(x) * k + c) % Limb>> \o BMulC(Tail(x), k, (Head(x) * k + c) \div Limb)

BMulSmall(x, k) == BMulC(x, k, 0)

\* Long division by d, 0 < d < Limb, from the top limb down to limb i: the
\* quotient limbs above i are q, the running remainder is r.
RECURSIVE BDivStep(_, _, _, _, _)
BDivStep(x, d, i, q, r) ==
  IF i = 0 THEN [q |-> q, r |-> r]
  ELSE BDivStep(x, d, i - 1, <<(r * Limb + x[i]) \div d>> \o q, (r * Limb + x[i]) % d)

\* Quotient (not stripped) and remainder of x by d.
BDivRem(x, d) == BDivStep(x, d, Len(x), << >>, 0)

\* Number of significant bits.
RECURSIVE BitsOf(_)
BitsOf(n) == IF n = 0 THEN 0 ELSE 1 + BitsOf(n \div 2)

BLen(x) == IF x = << >> THEN 0 ELSE 15 * (Len(x) - 1) + BitsOf(x[Len(x)])

\* x * 2^n.
BShl(x, n) ==
  IF x = << >> THEN << >>
  ELSE [i \in 1..(n \div 15) |-> 0] \o BMulSmall(x, 2 ^ (n % 15))

\* The quotient d of the limbs of x from w + 1 on, with the dropped part.
BShrOf(x, w, d) ==
  [q |-> BStrip(d.q), lost |-> d.r # 0 \/ \E i \in 1..w : x[i] # 0]

\* floor(x / 2^n), and whether a nonzero bit was dropped.
BShr(x, n) ==
  IF n \div 15 >= Len(x) THEN [q |-> << >>, lost |-> x # << >>]
  ELSE BShrOf(x, n \div 15,
              BDivRem(SubSeq(x, (n \div 15) + 1, Len(x)), 2 ^ (n % 15)))

\* q, or its successor when the dropped part is more than half, or half
\* with q odd.
BRoundUp(q, half, more) ==
  IF half /\ (more \/ (q # << >> /\ q[1] % 2 = 1)) THEN BAdd(q, <<1>>) ELSE q

\* h is the quotient and remainder by 2 of x / 2^(n-1).
BRoundHalf(h, more) == BRoundUp(BStrip(h.q), h.r = 1, more)

BRoundShifted(s, sticky) == BRoundHalf(BDivRem(s.q, 2), s.lost \/ sticky)

\* x / 2^n rounded half to even; sticky says that bits below x were already
\* dropped.
BShrRound(x, n, sticky) ==
  IF n = 0 THEN x ELSE BRoundShifted(BShr(x, n - 1), sticky)

(***************************************************************************)
(* IEEE-754 binary64 values (Python float).  A value is sg * m * 2^e with  *)
(* m an odd natural of at most 53 bits, or zero (sg = 0).  Exponent range  *)
(* and subnormals are not modelled: every value the handler forms is       *)
(* within 2^-70 .. 2^10.                                                   *)
(***************************************************************************)
FZero == [sg |-> 0, m |-> << >>, e |-> 0]

\* The canonical form: the significand made odd.
RECURSIVE FNorm(_, _, _)
FNorm(sg, m, e) ==
  IF m = << >> THEN FZero
  ELSE IF Head(m) = 0 THEN FNorm(sg, Tail(m), e + 15)
  ELSE IF Head(m) % 2 = 0 THEN FNorm(sg, BStrip(BDivRem(m, 2).q), e + 1)
  ELSE [sg |-> sg, m |-> m, e |-> e]

\* Round sg * n * 2^e, n of len bits, to 53 significant bits.
FRoundBits(sg, n, e, sticky, len) ==
  IF len <= 53 THEN FNorm(sg, n, e)
  ELSE FNorm(sg, BShrRound(n, len - 53, sticky), e + (len - 53))

\* Round sg * n * 2^e (n canonical) to 53 significant bits.
FRound(sg, n, e, sticky) == FRoundBits(sg, n, e, sticky, BLen(n))

FFromInt(k) ==
  IF k = 0 THEN FZero
  ELSE FRound(IF k < 0 THEN -1 ELSE 1, BFromNat(IF k < 0 THEN -k ELSE k), 0, FALSE)

FScale(f, h) == IF f.sg = 0 THEN f ELSE [f EXCEPT !.e = @ - h]

\* k / 2^h, for the non-integer weights of the inputs.
FDyadic(k, h) == FScale(FFromInt(k), h)

FNeg(x) == [x EXCEPT !.sg = -@]

\* sx * nx - sy * ny at exponent e0, c comparing nx with ny.
FExactDiff(sx, nx, sy, ny, e0, c) ==
  IF c = 0 THEN [sg |-> 0, n |-> << >>, e |-> 0]
  ELSE IF c > 0 THEN [sg |-> sx, n |-> BSub(nx, ny), e |-> e0]
  ELSE [sg |-> sy, n |-> BSub(ny, nx), e |-> e0]

\* sx * nx + sy * ny at the common exponent e0.
FExactAligned(sx, nx, sy, ny, e0) ==
  IF sx = sy THEN [sg |-> sx, n |-> BAdd(nx, ny), e |-> e0]
  ELSE FExactDiff(sx, nx, sy, ny, e0, BCmp(nx, ny))

FExactAt(x, y, e0) ==
  FExactAligned(x.sg, BShl(x.m, x.e - e0), y.sg, BShl(y.m, y.e - e0), e0)

\* The exact sum of two values: sign, magnitude and exponent.
FExactAdd(x, y) ==
  IF x.sg = 0 THEN [sg |-> y.sg, n |-> y.m, e |-> y.e]
  ELSE IF y.sg = 0 THEN [sg |-> x.sg, n |-> x.m, e |-> x.e]
  ELSE FExactAt(x, y, IF x.e < y.e THEN x.e ELSE y.e)

FRoundExact(s) == FRound(s.sg, s.n, s.e, FALSE)

FAdd(x, y) == FRoundExact(FExactAdd(x, y))

FSub(x, y) == FAdd(x, FNeg(y))

\* int * float: the int is converted exactly, the product rounded once.
FMulInt(k, x) ==
  IF k = 0 \/ x.sg = 0 THEN FZero
  ELSE FRound(IF k < 0 THEN -x.sg ELSE x.sg,
              BMulSmall(x.m, IF k < 0 THEN -k ELSE k), x.e, FALSE)

\* d is the quotient and remainder of x.m * 2^60 by 100.
FDivRound(x, d) == FRound(x.sg, BStrip(d.q), x.e - 60, d.r # 0)

\* float / 100 (line 152).
FDiv100(x) ==
  IF x.sg = 0 THEN FZero ELSE FDivRound(x, BDivRem(BShl(x.m, 60), 100))

FLt(x, y) == FExactAdd(x, FNeg(y)).sg = -1

FGt(x, y) == FLt(y, x)

FLtInt(x, k) == FLt(x, FFromInt(k))

FGtInt(x, k) == FGt(x, FFromInt(k))

\* n / 2^(-e) for e < 0, or n * 2^e, to the nearest integer, ties to even.
Round2Scaled(n, e) == IF e >= 0 THEN BShl(n, e) ELSE BShrRound(n, -e, FALSE)

\* round(x, 2): the nearest multiple of 0.01 to the exact binary value, ties
\* to even; the result is given in hundredths.
Round2(x) ==
  IF x.sg = 0 THEN 0 ELSE x.sg * BToNat(Round2Scaled(BMulSmall(x.m, 100), x.e))

(***************************************************************************)
(* Python values and dicts.                                                *)
(***************************************************************************)
PyNone == [t |-> "none", v |-> 0]

PyNum(n) == [t |-> "num", v |-> n]

\* A non-empty, non-numeric string such as "N/A".
PyStr == [t |-> "str", v |-> 0]

\* bool(x), as `if x:` and `not x` evaluate it.
Truthy(x) ==
  CASE x.t = "num"  -> x.v # 0
    [] x.t = "none" -> FALSE
    [] x.t = "str"  -> TRUE

\* dict.get(k, default)
Get(d, k, default) == IF k \in DOMAIN d THEN d[k] ELSE default

Clamp(score) ==
  LET lo == IF score < 50 THEN score ELSE 50
  IN IF lo > -50 THEN lo ELSE -50

(***************************************************************************)
(* The scorers.  A rule yields an adjustment and a reason, or raises; the  *)
(* try block runs the rules in order and its except clause swallows the    *)
(* first exception, leaving score and reasons as they were at that point.  *)
(* A reason is its text without the formatted numbers.                     *)
(***************************************************************************)
NoAdj == [raises |-> FALSE, adj |-> 0, reason |-> << >>]

Adj(n, text) == [raises |-> FALSE, adj |-> n, reason |-> <<text>>]

Raises == [raises |-> TRUE, adj |-> 0, reason |-> << >>]

TryStart == [score |-> 0, reasons |-> << >>, raised |-> FALSE]

\* TryStep with an except clause inside each rule: a rule that raises is
\* passed over and the rules after it still run.
TryStepPerRule(acc, rule) ==
  IF rule.raises THEN acc
  ELSE [score   |-> acc.score + rule.adj,
        reasons |-> acc.reasons \o rule.reason,
        raised  |-> FALSE]

TryStep(acc, rule) ==
  IF acc.raised THEN acc
  ELSE IF rule.raises THEN [acc EXCEPT !.raised = TRUE]
  ELSE [score   |-> acc.score + rule.adj,
        reasons |-> acc.reasons \o rule.reason,
        raised  |-> FALSE]

\* lines 37-47
PERule(info) ==
  LET pe_ratio    == Get(info, "trailingPE", PyNone)
      industry_pe == Get(info, "industryPE", PyNum(2500))
  IN IF ~Truthy(pe_ratio) THEN NoAdj
     ELSE IF industry_pe.t # "num" \/ pe_ratio.t # "num" THEN Raises
     ELSE IF pe_ratio.v * 100 < industry_pe.v * 80 THEN Adj(-20, "Low P/E ratio")
     ELSE IF pe_ratio.v * 100 > industry_pe.v * 120 THEN Adj(20, "High P/E ratio")
     ELSE NoAdj

\* lines 49-56
PEGRule(info) ==
  LET peg_ratio == Get(info, "pegRatio", PyNone)
  IN IF ~Truthy(peg_ratio) THEN NoAdj
     ELSE IF peg_ratio.t # "num" THEN Raises
     ELSE IF peg_ratio.v < 100 THEN Adj(-15, "Attractive PEG ratio")
     ELSE IF peg_ratio.v > 200 THEN Adj(15, "High PEG ratio")
     ELSE NoAdj

\* lines 58-65
PriceToBookRule(info) ==
  LET price_to_book == Get(info, "priceToBook", PyNone)
  IN IF ~Truthy(price_to_book) THEN NoAdj
     ELSE IF price_to_book.t # "num" THEN Raises
     ELSE IF price_to_book.v < 100 THEN Adj(-15, "Trading below book value")
     ELSE IF price_to_book.v > 300 THEN Adj(10, "High price-to-book")
     ELSE NoAdj

\* lines 67-74
ProfitMarginRule(info) ==
  LET profit_margin == Get(info, "profitMargins", PyNone)
  IN IF ~Truthy(profit_margin) THEN NoAdj
     ELSE IF profit_margin.t # "num" THEN Raises
     ELSE IF profit_margin.v > 20 THEN Adj(-10, "Strong profit margins")
     ELSE IF profit_margin.v < 5 THEN Adj(10, "Weak profit margins")
     ELSE NoAdj

calculate_rational_score(info) ==
  LET acc == TryStep(TryStep(TryStep(TryStep(TryStart,
                 PERule(info)), PEGRule(info)),
                 PriceToBookRule(info)), ProfitMarginRule(info))
  IN [score |-> Clamp(acc.score), reasons |-> acc.reasons]

(***************************************************************************)
(* The adaptive scorer.  A price history is [raises, bars]: raises says    *)
(* that ticker_data.history() raised; bars is the DataFrame, one record    *)
(* [Close, High, Low] (cents) per daily bar, oldest first.  A pandas       *)
(* aggregate that is NaN makes both of its comparisons false.              *)
(***************************************************************************)
RECURSIVE SumClose(_, _, _)
SumClose(df, lo, hi) ==
  IF lo > hi THEN 0
  ELSE IF lo = hi THEN df[lo].Close
  ELSE LET mid == (lo + hi) \div 2
       IN SumClose(df, lo, mid) + SumClose(df, mid + 1, hi)

RECURSIVE MaxHigh(_, _, _)
MaxHigh(df, lo, hi) ==
  IF lo = hi THEN df[lo].High
  ELSE LET mid == (lo + hi) \div 2
           l   == MaxHigh(df, lo, mid)
           r   == MaxHigh(df, mid + 1, hi)
       IN IF l > r THEN l ELSE r

RECURSIVE MinLow(_, _, _)
MinLow(df, lo, hi) ==
  IF lo = hi THEN df[lo].Low
  ELSE LET mid == (lo + hi) \div 2
           l   == MinLow(df, lo, mid)
           r   == MinLow(df, mid + 1, hi)
       IN IF l < r THEN l ELSE r

\* df['Close'].diff() at row i; the first row's NaN fails both where() tests.
Delta(df, i) == IF i = 1 THEN 0 ELSE df[i].Close - df[i - 1].Close

\* 14 * rolling(14).mean().iloc[-1] of the gains (up = TRUE) or the losses.
RECURSIVE SumMoves(_, _, _, _)
SumMoves(df, lo, hi, up) ==
  IF lo > hi THEN 0
  ELSE LET d == Delta(df, lo)
           m == IF up THEN (IF d > 0 THEN d ELSE 0) ELSE (IF d < 0 THEN -d ELSE 0)
       IN m + SumMoves(df, lo + 1, hi, up)

\* lines 94, 97-102: ma_50 is sum50 / 50.
MA50Rule(df) ==
  LET n             == Len(df)
      current_price == df[n].Close
      sum50         == SumClose(df, n - 49, n)
  IN IF n < 50 THEN NoAdj
     ELSE IF current_price * 5000 < sum50 * 95
          THEN Adj(-15, "Trading below 50-day MA")
     ELSE IF current_price * 5000 > sum50 * 105
          THEN Adj(15, "Trading above 50-day MA")
     ELSE NoAdj

\* lines 95, 104-110: ma_200 is sum200 / 200.
MA200Rule(df) ==
  LET n             == Len(df)
      current_price == df[n].Close
      sum200        == SumClose(df, n - 199, n)
  IN IF n < 200 THEN NoAdj
     ELSE IF current_price * 2000 < sum200 * 9
          THEN Adj(-20, "Significantly below 200-day MA")
     ELSE IF current_price * 2000 > sum200 * 11
          THEN Adj(20, "Significantly above 200-day MA")
     ELSE NoAdj

\* lines 112-124: rsi = 100 - 100 / (1 + gain / loss) = 100 * gain / (gain +
\* loss); a zero loss gives rs = inf and rsi = 100, or NaN when the gain is
\* zero too.
RSIRule(df) ==
  LET n    == Len(df)
      gain == SumMoves(df, n - 13, n, TRUE)
      loss == SumMoves(df, n - 13, n, FALSE)
  IN IF n < 14 THEN NoAdj
     ELSE IF loss = 0
          THEN IF gain = 0 THEN NoAdj ELSE Adj(15, "Overbought RSI")
     ELSE IF 100 * gain < 30 * (gain + loss) THEN Adj(-15, "Oversold RSI")
     ELSE IF 100 * gain > 70 * (gain + loss) THEN Adj(15, "Overbought RSI")
     ELSE NoAdj

\* lines 126-136: range_position is num / den; a zero den gives inf, -inf or
\* NaN (numpy division), no exception.
RangeRule(df, info) ==
  LET n             == Len(df)
      current_price == df[n].Close
      week_52_high  == Get(info, "fiftyTwoWeekHigh", PyNum(MaxHigh(df, 1, n)))
      week_52_low   == Get(info, "fiftyTwoWeekLow", PyNum(MinLow(df, 1, n)))
      num           == current_price - week_52_low.v
      den           == week_52_high.v - week_52_low.v
      below         == IF den > 0 THEN 4 * num < den
                       ELSE IF den < 0 THEN 4 * num > den
                       ELSE num < 0
      above         == IF den > 0 THEN 4 * num > 3 * den
                       ELSE IF den < 0 THEN 4 * num < 3 * den
                       ELSE num > 0
  IN IF week_52_high.t # "num" \/ week_52_low.t # "num" THEN Raises
     ELSE IF below THEN Adj(-10, "Near 52-week low")
     ELSE IF above THEN Adj(10, "Near 52-week high")
     ELSE NoAdj

\* lines 92-136, the rules that follow the length test.
AdaptiveRules(df, info) ==
  IF Len(df) = 0 THEN [TryStart EXCEPT !.raised = TRUE]
  ELSE TryStep(TryStep(TryStep(TryStep(TryStart,
           MA50Rule(df)), MA200Rule(df)), RSIRule(df)), RangeRule(df, info))

\* calculate_adaptive_score with the length test off by one (len(df) < 49).
calculate_adaptive_score_49(hist, info) ==
  IF hist.raises THEN [score |-> 0, reasons |-> << >>]
  ELSE IF Len(hist.bars) < 49
       THEN [score |-> 0, reasons |-> <<"Insufficient historical data">>]
  ELSE LET acc == AdaptiveRules(hist.bars, info)
       IN [score |-> Clamp(acc.score), reasons |-> acc.reasons]

calculate_adaptive_score(hist, info) ==
  IF hist.raises THEN [score |-> 0, reasons |-> << >>]
  ELSE IF Len(hist.bars) < 50
       THEN [score |-> 0, reasons |-> <<"Insufficient historical data">>]
  ELSE LET acc == AdaptiveRules(hist.bars, info)
       IN [score |-> Clamp(acc.score), reasons |-> acc.reasons]

(***************************************************************************)
(* Strings the code inspects: sequences of one-character strings.          *)
(***************************************************************************)
UpperCase == <<"A", "B", "C", "D", "E", "F", "G", "H", "I", "J", "K", "L", "M", "N", "O", "P", "Q", "R", "S", "T", "U", "V", "W", "X", "Y", "Z">>

LowerCase == <<"a", "b", "c", "d", "e", "f", "g", "h", "i", "j", "k", "l", "m", "n", "o", "p", "q", "r", "s", "t", "u", "v", "w", "x", "y", "z">>

\* str.upper()
upper(s) ==
  [i \in 1..Len(s) |->
     IF \E k \in 1..26 : LowerCase[k] = s[i]
     THEN UpperCase[CHOOSE k \in 1..26 : LowerCase[k] = s[i]]
     ELSE s[i]]

\* str.lower()
lower(s) ==
  [i \in 1..Len(s) |->
     IF \E k \in 1..26 : UpperCase[k] = s[i]
     THEN LowerCase[CHOOSE k \in 1..26 : UpperCase[k] = s[i]]
     ELSE s[i]]

\* str.strip()
strip(s) ==
  LET keep == {i \in 1..Len(s) : s[i] # " "}
  IN IF keep = {} THEN << >>
     ELSE SubSeq(s, CHOOSE i \in keep : \A j \in keep : i <= j,
                    CHOOSE i \in keep : \A j \in keep : i >= j)

\* sub in s
Contains(sub, s) ==
  \E i \in 1..(Len(s) - Len(sub) + 1) : SubSeq(s, i, i + Len(sub) - 1) = sub

(***************************************************************************)
(* The cache (lines 15-29): a dict from ticker to (data, timestamp), where *)
(* data is a REFERENCE to a result dict.  The dicts live in heap, a        *)
(* function from object ids to records, so that the in-place writes of     *)
(* lines 182-186 reach every holder of the reference.  Nil is None.        *)
(***************************************************************************)
CACHE_DURATION == 10

Nil == 0

\* get_cached_data with the age test inclusive (<= CACHE_DURATION).
get_cached_data_inclusive(c, t, ticker) ==
  IF ticker \in DOMAIN c /\ t - c[ticker].timestamp <= CACHE_DURATION
  THEN c[ticker].data
  ELSE Nil

get_cached_data(c, t, ticker) ==
  IF ticker \in DOMAIN c /\ t - c[ticker].timestamp < CACHE_DURATION
  THEN c[ticker].data
  ELSE Nil

cache_data(c, t, ticker, data) ==
  [k \in DOMAIN c \cup {ticker} |->
     IF k = ticker THEN [data |-> data, timestamp |-> t] ELSE c[k]]

\* A fresh object id, and the heap without the objects nobody refers to
\* (reference counting frees them).
Alloc(h) == CHOOSE o \in 1..(Cardinality(DOMAIN h) + 1) :
              o \notin DOMAIN h /\ \A o2 \in 1..(o - 1) : o2 \in DOMAIN h

Collect(h, roots) == [o \in DOMAIN h \cap roots |-> h[o]]

CacheRoots(c) == {c[k].data : k \in DOMAIN c}

(***************************************************************************)
(* The request handler (lines 147-255).  A request body is a dict with     *)
(* the optional keys "ticker" and "rational_weight"; a JSON value is a     *)
(* string (JStr) or a number (JNum).                                       *)
(***************************************************************************)
JStr(s) == [t |-> "str", s |-> s, f |-> FZero]

JNum(f) == [t |-> "num", s |-> << >>, f |-> f]

\* str(e) of the AttributeError of line 151 and the ValueError of line 152.
NoUpperText == <<"'", "f", "l", "o", "a", "t", "'", " ", "o", "b", "j", "e", "c", "t", " ", "h", "a", "s", " ", "n", "o", " ", "a", "t", "t", "r", "i", "b", "u", "t", "e", " ", "'", "u", "p", "p", "e", "r", "'">>

NotFloatText(s) == <<"c", "o", "u", "l", "d", " ", "n", "o", "t", " ", "c", "o", "n", "v", "e", "r", "t", " ", "s", "t", "r", "i", "n", "g", " ", "t", "o", " ", "f", "l", "o", "a", "t", ":", " ", "'">> \o s \o <<"'">>

\* lines 150-152.  A JStr weight is a text that float() does not parse.
ParseRequest(data) ==
  LET tv == Get(data, "ticker", JStr(<< >>))
      wv == Get(data, "rational_weight", JNum(FFromInt(50)))
  IN IF tv.t # "str"
     THEN [raised |-> TRUE, msg |-> NoUpperText, ticker |-> << >>,
           rational_weight |-> FZero]
     ELSE IF wv.t # "num"
     THEN [raised |-> TRUE, msg |-> NotFloatText(wv.s), ticker |-> << >>,
           rational_weight |-> FZero]
     ELSE [raised |-> FALSE, msg |-> << >>, ticker |-> strip(upper(tv.s)),
           rational_weight |-> FDiv100(wv.f)]

\* line 253
IsRateLimit(error_message) ==
  \/ Contains(<<"r", "a", "t", "e">>, lower(error_message))
  \/ Contains(<<"4", "2", "9">>, error_message)

\* lines 251-255
ErrorStatus(error_message) == IF IsRateLimit(error_message) THEN 429 ELSE 500

\* lines 163-164
HitCombined(rational_score, adaptive_score, rational_weight) ==
  LET adaptive_weight == FSub(FFromInt(1), rational_weight)
  IN FAdd(FMulInt(rational_score, rational_weight),
          FMulInt(adaptive_score, adaptive_weight))

\* HitBucket with its first test inclusive (combined_score <= -20).
HitBucketInclusive(combined_score) ==
  IF ~FGtInt(combined_score, -20)
  THEN [recommendation |-> "STRONG BUY", signal_class |-> "strong-buy"]
  ELSE IF FLtInt(combined_score, -5)
  THEN [recommendation |-> "BUY", signal_class |-> "buy"]
  ELSE IF FGtInt(combined_score, 20)
  THEN [recommendation |-> "STRONG SELL", signal_class |-> "strong-sell"]
  ELSE IF FGtInt(combined_score, 5)
  THEN [recommendation |-> "SELL", signal_class |-> "sell"]
  ELSE [recommendation |-> "HOLD", signal_class |-> "hold"]

\* lines 166-180
HitBucket(combined_score) ==
  IF FLtInt(combined_score, -20)
  THEN [recommendation |-> "STRONG BUY", signal_class |-> "strong-buy"]
  ELSE IF FLtInt(combined_score, -5)
  THEN [recommendation |-> "BUY", signal_class |-> "buy"]
  ELSE IF FGtInt(combined_score, 20)
  THEN [recommendation |-> "STRONG SELL", signal_class |-> "strong-sell"]
  ELSE IF FGtInt(combined_score, 5)
  THEN [recommendation |-> "SELL", signal_class |-> "sell"]
  ELSE [recommendation |-> "HOLD", signal_class |-> "hold"]

\* MissCombined with the adaptive score weighted by rational_weight too.
MissCombinedOneWeight(rational_score, adaptive_score, rational_weight) ==
  FAdd(FMulInt(rational_score, rational_weight),
       FMulInt(adaptive_score, rational_weight))

\* lines 205-206
MissCombined(rational_score, adaptive_score, rational_weight) ==
  LET adaptive_weight == FSub(FFromInt(1), rational_weight)
  IN FAdd(FMulInt(rational_score, rational_weight),
          FMulInt(adaptive_score, adaptive_weight))

\* lines 208-222
MissBucket(combined_score) ==
  IF FLtInt(combined_score, -20)
  THEN [recommendation |-> "STRONG BUY", signal_class |-> "strong-buy"]
  ELSE IF FLtInt(combined_score, -5)
  THEN [recommendation |-> "BUY", signal_class |-> "buy"]
  ELSE IF FGtInt(combined_score, 20)
  THEN [recommendation |-> "STRONG SELL", signal_class |-> "strong-sell"]
  ELSE IF FGtInt(combined_score, 5)
  THEN [recommendation |-> "SELL", signal_class |-> "sell"]
  ELSE [recommendation |-> "HOLD", signal_class |-> "hold"]

\* lines 166-186: the locals of the cache-hit path once combined_score is
\* known.
HitLocalsOf(combined_score, rational_weight) ==
  HitBucket(combined_score) @@
    [combined_score  |-> combined_score,
     rational_weight |-> rational_weight,
     adaptive_weight |-> FSub(FFromInt(1), rational_weight)]

\* lines 161-180: the locals of the cache-hit path, from the two scores read
\* from cached_result.
HitLocals(rational_score, adaptive_score, rational_weight) ==
  HitLocalsOf(HitCombined(rational_score, adaptive_score, rational_weight),
              rational_weight)

\* lines 182-186 write these keys of the cached dict, in this order.
HitFields ==
  <<"combined_score", "recommendation", "signal_class",
    "rational_weight", "adaptive_weight">>

\* The values lines 182-186 assign, in that order.
HitValues(locals) ==
  <<Round2(locals.combined_score), locals.recommendation, locals.signal_class,
    locals.rational_weight, locals.adaptive_weight>>

\* HitWrite that also resets the cached rational_score.
HitWriteScore(h, oid, values, i) ==
  [h EXCEPT ![oid] = [@ EXCEPT ![HitFields[i]] = values[i], !.rational_score = 0]]

\* One of the assignments of lines 182-186, on the shared object.
HitWrite(h, oid, values, i) ==
  [h EXCEPT ![oid] = [@ EXCEPT ![HitFields[i]] = values[i]]]

\* lines 182-186
HitWrites(h, oid, values) ==
  HitWrite(HitWrite(HitWrite(HitWrite(HitWrite(h,
    oid, values, 1), oid, values, 2), oid, values, 3), oid, values, 4),
    oid, values, 5)

\* jsonify(d): the serialised fields of the dict as they are at the call.
jsonify(d) == d

ErrorBody == [error |-> TRUE]

\* lines 208-244: the response dict (of which the fields copied unchanged
\* from info are left out; round(score, 2) of an int score is that int).
Respond(ticker, rational_weight, current_price, rational, adaptive, combined_score) ==
  [status |-> 200,
   combined_score |-> combined_score,
   response |->
     MissBucket(combined_score) @@
       [ticker           |-> ticker,
        current_price    |-> current_price,
        rational_score   |-> rational.score,
        adaptive_score   |-> adaptive.score,
        combined_score   |-> Round2(combined_score),
        rational_reasons |-> rational.reasons,
        adaptive_reasons |-> adaptive.reasons,
        rational_weight  |-> rational_weight,
        adaptive_weight  |-> FSub(FFromInt(1), rational_weight)]]

\* lines 202-206
Score(ticker, rational_weight, current_price, rational, adaptive) ==
  Respond(ticker, rational_weight, current_price, rational, adaptive,
          MissCombined(rational.score, adaptive.score, rational_weight))

\* lines 197-203
Priced(ticker, rational_weight, info, hist, current_price) ==
  IF ~Truthy(current_price)
  THEN [status |-> 404, response |-> ErrorBody, combined_score |-> FZero]
  ELSE Score(ticker, rational_weight, current_price,
             calculate_rational_score(info),
             calculate_adaptive_score(hist, info))

\* lines 194-244.  A provider reply is [raises, msg, info, hist]: stock.info
\* raises an exception with text msg, or is the dict info.  The result is
\* the exception's status, the 404 of line 200, or the response dict.
FetchAndScore(ticker, rational_weight, reply) ==
  IF reply.raises
  THEN [status |-> ErrorStatus(reply.msg), response |-> ErrorBody,
        combined_score |-> FZero]
  ELSE Priced(ticker, rational_weight, reply.info, reply.hist,
              Get(reply.info, "currentPrice",
                  Get(reply.info, "regularMarketPrice", PyNone)))

(***************************************************************************)
(* Inputs.                                                                 *)
(***************************************************************************)
EmptyDict == [x \in {} |-> PyNone]

\* A history of n bars whose close starts at first and moves by step a day.
Bars(n, first, step) ==
  [i \in 1..n |-> [Close |-> first + (i - 1) * step,
                   High  |-> first + (i - 1) * step + 50,
                   Low   |-> first + (i - 1) * step - 50]]

History(n, first, step) == [raises |-> FALSE, bars |-> Bars(n, first, step)]

NoHistory == [raises |-> TRUE, bars |-> << >>]

\* Fundamentals given as the values of the keys InfoKeys, in that order.
InfoKeys ==
  <<"currentPrice", "trailingPE", "industryPE", "pegRatio", "priceToBook",
    "profitMargins", "fiftyTwoWeekHigh">>

Absent == [t |-> "absent", v |-> 0]

Info(values) ==
  [k \in {InfoKeys[i] : i \in {j \in 1..Len(InfoKeys) : values[j] # Absent}} |->
     values[CHOOSE i \in 1..Len(InfoKeys) : InfoKeys[i] = k]]

RateLimitedText == <<"T", "o", "o", " ", "M", "a", "n", "y", " ", "R", "e", "q", "u", "e", "s", "t", "s", ".", " ", "R", "a", "t", "e", " ", "l", "i", "m", "i", "t", "e", "d", ".", " ", "T", "r", "y", " ", "a", "f", "t", "e", "r", " ", "a", " ", "w", "h", "i", "l", "e", ".">>

TimedOutText == <<"R", "e", "a", "d", " ", "t", "i", "m", "e", "d", " ", "o", "u", "t", ".">>

Raising(msg) ==
  [raises |-> TRUE, msg |-> msg, info |-> EmptyDict, hist |-> NoHistory]

Reply(info, hist) == [raises |-> FALSE, msg |-> << >>, info |-> info, hist |-> hist]

\* What the data provider may answer to a fetch.
ProviderReplies ==
  << Raising(RateLimitedText),
     Raising(TimedOutText),
     \* no price
     Reply(Info(<<Absent, PyNum(1000), Absent, Absent, Absent, Absent, Absent>>),
           History(60, 9000, 10)),
     \* all four rational rules negative (-60), a falling market
     Reply(Info(<<PyNum(10000), PyNum(1000), PyNum(2500), PyNum(50), PyNum(50),
                  PyNum(25), Absent>>),
           History(60, 12000, -30)),
     \* a PEG ratio and a 52-week high that are not numbers, a rising market
     Reply(Info(<<PyNum(10000), PyNum(1000), Absent, PyStr, PyNum(50),
                  PyNum(25), PyStr>>),
           History(60, 9000, 30)),
     \* the history cannot be fetched
     Reply(Info(<<PyNum(10000), PyNum(4000), Absent, Absent, Absent,
                  PyNum(3), Absent>>),
           NoHistory) >>

JAbsent == [t |-> "absent", s |-> << >>, f |-> FZero]

\* A request body with the given values; a JAbsent value leaves its key out.
Body(ticker, rational_weight) ==
  [k \in (IF ticker = JAbsent THEN {} ELSE {"ticker"})
         \cup (IF rational_weight = JAbsent THEN {} ELSE {"rational_weight"}) |->
     IF k = "ticker" THEN ticker ELSE rational_weight]

TickerInputs ==
  <<JAbsent, JStr(<<" ">>), JStr(<<" ", "a">>), JStr(<<"A">>), JStr(<<"b">>)>>

WeightInputs == <<JAbsent, JNum(FDyadic(57, 1)), JStr(<<"a", "b", "c">>)>>

\* The request bodies of the sequential runs: every ticker with every weight.
SeqRequests ==
  [i \in 1..(Len(TickerInputs) * Len(WeightInputs)) |->
     Body(TickerInputs[((i - 1) \div Len(WeightInputs)) + 1],
          WeightInputs[((i - 1) % Len(WeightInputs)) + 1])]

\* The requests of the concurrent runs: one ticker, two weights.
ConcRequests ==
  <<Body(JStr(<<"A">>), JNum(FFromInt(0))),
    Body(JStr(<<"A">>), JNum(FFromInt(100)))>>

\* All request bodies; a request is named by its number in this list.
Requests == SeqRequests \o ConcRequests

SeqRequestNos == 1..(Len(TickerInputs) * Len(WeightInputs))

ConcRequestNos ==
  {Len(TickerInputs) * Len(WeightInputs) + i : i \in 1..Len(ConcRequests)}

\* The reply the provider gives in the concurrent runs.
ConcReplyNos == {4}

MaxTime == 10

TickMinutes == 5

(***************************************************************************)
(* The values of the handler's pure steps on the inputs above, computed    *)
(* once.                                                                   *)
(***************************************************************************)
Parsed == [reqNo \in DOMAIN Requests |-> ParseRequest(Requests[reqNo])]

\* The status of the except clause (lines 251-255) for an exception of
\* lines 150-152.
ParseStatus ==
  [reqNo \in DOMAIN Parsed |->
     IF Parsed[reqNo].raised THEN ErrorStatus(Parsed[reqNo].msg) ELSE 200]

FetchedFor(p, reply) == FetchAndScore(p.ticker, p.rational_weight, reply)

Fetched ==
  [reqNo \in DOMAIN Parsed, replyNo \in DOMAIN ProviderReplies |->
     FetchedFor(Parsed[reqNo], ProviderReplies[replyNo])]

\* The values a scorer can return: sums of multiples of 5, clamped.
Scores == {5 * k : k \in -10..10}

LocalsOf(locals) ==
  [combined_score |-> locals.combined_score, values |-> HitValues(locals)]

Locals ==
  [rational_score \in Scores, adaptive_score \in Scores, reqNo \in DOMAIN Parsed |->
     LocalsOf(HitLocals(rational_score, adaptive_score,
                        Parsed[reqNo].rational_weight))]

(***************************************************************************)
(* The handler run without interruption at time t on cache c and heap h.   *)
(* Its result is the cache and the heap it leaves and out, which describes *)
(* the request for the properties: what was asked (req, key), the provider *)
(* reply consumed (reply), the path taken, whether the provider was called *)
(* (fetched) and cache_data was called (stored, with the object data), the *)
(* unrounded combined_score, and the response (status, body).              *)
(***************************************************************************)
Base(reqNo, p) ==
  [req |-> reqNo, key |-> p.ticker, reply |-> 0, path |-> "raise",
   status |-> 500, body |-> ErrorBody, fetched |-> FALSE, stored |-> FALSE,
   data |-> Nil, combined_score |-> FZero]

\* line 188: the reply of the hit path, on the heap the writes left.
HitReply(c, hitHeap, reqNo, p, cached_result, combined_score) ==
  [cache |-> c, heap |-> hitHeap,
   out |-> [Base(reqNo, p) EXCEPT !.path = "hit", !.status = 200,
                                 !.body = jsonify(hitHeap[cached_result]),
                                 !.combined_score = combined_score]]

\* lines 159-188
HandleHit(c, h, reqNo, p, cached_result, locals) ==
  HitReply(c, HitWrites(h, cached_result, locals.values), reqNo, p,
           cached_result, locals.combined_score)

\* lines 246-249: the response dict becomes the object response of the heap.
StoreAndReply(c, h, t, reqNo, replyNo, p, f, response) ==
  LET c2 == cache_data(c, t, p.ticker, response)
      h2 == [o \in DOMAIN h \cup {response} |->
               IF o = response THEN f.response ELSE h[o]]
  IN [cache |-> c2, heap |-> Collect(h2, CacheRoots(c2)),
      out |-> [Base(reqNo, p) EXCEPT !.path = "miss", !.status = 200,
                                    !.reply = replyNo, !.fetched = TRUE,
                                    !.stored = TRUE, !.data = response,
                                    !.body = jsonify(h2[response]),
                                    !.combined_score = f.combined_score]]

\* lines 190-255, f being the outcome of lines 194-244.
HandleMiss(c, h, t, reqNo, replyNo, p, f) ==
  IF f.status # 200
  THEN [cache |-> c, heap |-> h,
        out |-> [Base(reqNo, p) EXCEPT
                   !.path = IF ProviderReplies[replyNo].raises
                            THEN "raise" ELSE "nodata",
                   !.status = f.status, !.reply = replyNo, !.fetched = TRUE]]
  ELSE StoreAndReply(c, h, t, reqNo, replyNo, p, f, Alloc(h))

\* HandleValid that ignores the cached result and always fetches.
HandleValidRefetch(c, h, t, reqNo, replyNo, p, cached_result) ==
  HandleMiss(c, h, t, reqNo, replyNo, p, Fetched[reqNo, replyNo])

\* lines 157-190
HandleValid(c, h, t, reqNo, replyNo, p, cached_result) ==
  IF cached_result # Nil
  THEN HandleHit(c, h, reqNo, p, cached_result,
                 Locals[h[cached_result].rational_score,
                        h[cached_result].adaptive_score, reqNo])
  ELSE HandleMiss(c, h, t, reqNo, replyNo, p, Fetched[reqNo, replyNo])

\* lines 149-158
HandleParsed(c, h, t, reqNo, replyNo, p) ==
  IF p.raised
  THEN [cache |-> c, heap |-> h,
        out |-> [Base(reqNo, p) EXCEPT !.status = ParseStatus[reqNo]]]
  ELSE IF p.ticker = << >>
  THEN [cache |-> c, heap |-> h,
        out |-> [Base(reqNo, p) EXCEPT !.path = "empty", !.status = 400]]
  ELSE HandleValid(c, h, t, reqNo, replyNo, p,
                   get_cached_data(c, t, p.ticker))

\* lines 147-255
Handle(c, h, t, reqNo, replyNo) ==
  HandleParsed(c, h, t, reqNo, replyNo, Parsed[reqNo])

(***************************************************************************)
(* The state.  now, cache and heap are the program's; last describes the   *)
(* request handled last and storeLog records, per ticker, the last call of *)
(* cache_data (history variables).  pc, frame and resp are the positions,  *)
(* locals and responses of requests served concurrently; fin and fout are  *)
(* the input and the results of the pure functions.                        *)
(***************************************************************************)
VARIABLES now, cache, heap, last, storeLog, pc, frame, resp, fin, fout

vars == <<now, cache, heap, last, storeLog, pc, frame, resp, fin, fout>>

NoRequest ==
  [req |-> 0, key |-> << >>, reply |-> 0, path |-> "none", status |-> 0,
   body |-> ErrorBody, fetched |-> FALSE, stored |-> FALSE, data |-> Nil,
   combined_score |-> FZero]

Procs == {"p1", "p2"}

Idle == [p \in Procs |-> "idle"]

\* The locals of a thread that serves no request.
NoFrame == [req |-> 0, path |-> "none", obj |-> Nil, values |-> << >>, next |-> 0]

NoFrames == [p \in Procs |-> NoFrame]

NoInput == [kind |-> "none"]

Init ==
  /\ now = 0
  /\ cache = EmptyDict
  /\ heap = EmptyDict
  /\ last = NoRequest
  /\ storeLog = EmptyDict
  /\ pc = Idle
  /\ frame = NoFrames
  /\ resp = [p \in Procs |-> EmptyDict]
  /\ fin = NoInput
  /\ fout = NoInput

\* Time passes.
Tick ==
  /\ now + TickMinutes <= MaxTime
  /\ now' = now + TickMinutes
  /\ UNCHANGED <<cache, heap, last, storeLog, pc, frame, resp, fin, fout>>

\* The record of a cache_data call in storeLog.
Logged(log, out, t) ==
  IF out.stored
  THEN [k \in DOMAIN log \cup {out.key} |->
          IF k = out.key
          THEN [data |-> out.data, at |-> t,
                rational_score |-> out.body.rational_score,
                adaptive_score |-> out.body.adaptive_score]
          ELSE log[k]]
  ELSE log

\* The provider is asked (line 194) only by a request that reaches line 190.
ReplyNos(c, t, p) ==
  IF ~p.raised /\ p.ticker # << >> /\ get_cached_data(c, t, p.ticker) = Nil
  THEN DOMAIN ProviderReplies
  ELSE {1}

Return(r) ==
  /\ cache' = r.cache
  /\ heap' = r.heap
  /\ last' = r.out
  /\ storeLog' = Logged(storeLog, r.out, now)
  /\ UNCHANGED <<now, pc, frame, resp, fin, fout>>

\* One request, handled from line 149 to its return.
Analyze ==
  \E reqNo \in SeqRequestNos :
    \E replyNo \in ReplyNos(cache, now, Parsed[reqNo]) :
      Return(Handle(cache, heap, now, reqNo, replyNo))

Next == Tick \/ Analyze

Spec == Init /\ [][Next]_vars

(***************************************************************************)
(* The pure functions on their own: the scorers, the combination and the   *)
(* bucketing, each applied to an input drawn by the initial state.         *)
(***************************************************************************)
\* Scores the scorers can return, among them both ends of the clamp.
ScoreInputs == {-50, -20, 0, 5, 50}

\* rational_weight as the request gives it (in percent), k / 2^h: 0, 8,
\* 28.5, 50, 100.
PercentInputs == {<<0, 0>>, <<8, 0>>, <<57, 1>>, <<50, 0>>, <<100, 0>>}

CombineInputs ==
  {[kind |-> "combine", r |-> r, a |-> a, k |-> w[1], h |-> w[2]] :
     r \in ScoreInputs, a \in ScoreInputs, w \in PercentInputs}

\* Combined scores k / 2^h: the examples and the boundaries of the buckets,
\* and their neighbours at a sixteenth.
BucketInputs ==
  {[kind |-> "bucket", k |-> k, h |-> 0] :
     k \in {-50, -30, -21, -20, -19, -10, -6, -5, -4, 0, 4, 5, 6, 10, 19, 20, 21, 30, 50}}
  \cup {[kind |-> "bucket", k |-> k, h |-> 4] :
     k \in {-321, -319, -81, -79, 79, 81, 319, 321}}

\* Fundamentals: every field absent, zero, or on either side of its rule.
InfoInputs ==
  {[kind |-> "rational",
    info |-> Info(<<PyNum(10000), pe, ipe, peg, pb, pm, Absent>>)] :
     pe  \in {Absent, PyNum(0), PyNum(1000), PyNum(2500), PyNum(3100)},
     ipe \in {Absent, PyNum(1000)},
     peg \in {Absent, PyNum(0), PyNum(50), PyNum(250)},
     pb  \in {Absent, PyNum(50), PyNum(350)},
     pm  \in {Absent, PyNum(0), PyNum(25)}}

\* Histories of 0 to 200 bars, falling, flat and rising, with the 52-week
\* high given, malformed or left to the history.
HistoryInputs ==
  {[kind |-> "adaptive",
    hist |-> History(n, 20000, step),
    info |-> Info(<<PyNum(10000), Absent, Absent, Absent, Absent, Absent, high>>)] :
     n    \in {0, 1, 14, 49, 50, 200},
     step \in {-30, 0, 30},
     high \in {Absent, PyStr, PyNum(30000)}}

PureInputs == CombineInputs \cup BucketInputs \cup InfoInputs \cup HistoryInputs

PureInit ==
  /\ now = 0
  /\ cache = EmptyDict
  /\ heap = EmptyDict
  /\ last = NoRequest
  /\ storeLog = EmptyDict
  /\ pc = Idle
  /\ frame = NoFrames
  /\ resp = [p \in Procs |-> EmptyDict]
  /\ fin \in PureInputs
  /\ fout = NoInput

\* line 152, then lines 163-164 (hit) and 205-206 (miss), with the rounded
\* combined_score of lines 182 and 230.
CombineWith(rational_weight) ==
  [kind |-> "combine",
   hit  |-> HitCombined(fin.r, fin.a, rational_weight),
   miss |-> MissCombined(fin.r, fin.a, rational_weight),
   rational_weight |-> rational_weight,
   adaptive_weight |-> FSub(FFromInt(1), rational_weight)]

Rounded(out) ==
  out @@ [hit_rounded |-> Round2(out.hit), miss_rounded |-> Round2(out.miss)]

Combine ==
  /\ fin.kind = "combine" /\ fout = NoInput
  /\ fout' = Rounded(CombineWith(FDiv100(FDyadic(fin.k, fin.h))))
  /\ UNCHANGED <<now, cache, heap, last, storeLog, pc, frame, resp, fin>>

\* lines 166-180 (hit) and 208-222 (miss)
BucketOf(combined_score) ==
  [kind |-> "bucket", hit |-> HitBucket(combined_score),
   miss |-> MissBucket(combined_score)]

Bucket ==
  /\ fin.kind = "bucket" /\ fout = NoInput
  /\ fout' = BucketOf(FDyadic(fin.k, fin.h))
  /\ UNCHANGED <<now, cache, heap, last, storeLog, pc, frame, resp, fin>>

\* line 202
CallRational ==
  /\ fin.kind = "rational" /\ fout = NoInput
  /\ fout' = calculate_rational_score(fin.info) @@ [kind |-> "rational"]
  /\ UNCHANGED <<now, cache, heap, last, storeLog, pc, frame, resp, fin>>

\* line 203
CallAdaptive ==
  /\ fin.kind = "adaptive" /\ fout = NoInput
  /\ fout' = calculate_adaptive_score(fin.hist, fin.info) @@ [kind |-> "adaptive"]
  /\ UNCHANGED <<now, cache, heap, last, storeLog, pc, frame, resp, fin>>

PureNext == Combine \/ Bucket \/ CallRational \/ CallAdaptive

PureSpec == PureInit /\ [][PureNext]_vars

(***************************************************************************)
(* Requests served concurrently (the development server runs each request  *)
(* in a thread of its own).  A thread can be pre-empted between any two    *)
(* statements that touch the shared cache or a cached dict: the lookup of  *)
(* line 158, each write of lines 182-186, the jsonify of lines 188 and     *)
(* 249, the store of line 247.  frame[p] holds the locals of thread p:     *)
(* its request, its path, the dict it refers to (cached_result or          *)
(* response) and, on the hit path, the values it is about to write.        *)
(***************************************************************************)
FrameRoots(fr) == {fr[p].obj : p \in DOMAIN fr}

Roots(c, fr) == CacheRoots(c) \cup FrameRoots(fr)

Frame(reqNo, path, obj, values, next) ==
  [req |-> reqNo, path |-> path, obj |-> obj, values |-> values, next |-> next]

\* lines 159-180: the hit path up to its first write.
BeginHit(p, reqNo, cached_result) ==
  /\ frame' = [frame EXCEPT ![p] =
       Frame(reqNo, "hit", cached_result,
             Locals[heap[cached_result].rational_score,
                    heap[cached_result].adaptive_score, reqNo].values, 1)]
  /\ pc' = [pc EXCEPT ![p] = "write"]
  /\ UNCHANGED <<resp, heap>>

\* lines 149-158, and lines 159-180 on a hit.
BeginValid(p, reqNo, cached_result) ==
  IF cached_result # Nil
  THEN BeginHit(p, reqNo, cached_result)
  ELSE /\ frame' = [frame EXCEPT ![p] = Frame(reqNo, "miss", Nil, << >>, 0)]
       /\ pc' = [pc EXCEPT ![p] = "fetch"]
       /\ UNCHANGED <<resp, heap>>

BeginParsed(p, reqNo, parsed) ==
  IF parsed.raised \/ parsed.ticker = << >>
  THEN /\ frame' = [frame EXCEPT ![p] = Frame(reqNo, "empty", Nil, << >>, 0)]
       /\ resp' = [resp EXCEPT ![p] = ErrorBody]
       /\ pc' = [pc EXCEPT ![p] = "done"]
       /\ UNCHANGED heap
  ELSE BeginValid(p, reqNo, get_cached_data(cache, now, parsed.ticker))

Begin(p) ==
  /\ pc[p] = "idle"
  /\ \E reqNo \in ConcRequestNos : BeginParsed(p, reqNo, Parsed[reqNo])
  /\ UNCHANGED <<now, cache, last, storeLog, fin, fout>>

\* One of the assignments of lines 182-186.
Write(p) ==
  /\ pc[p] = "write"
  /\ heap' = HitWrite(heap, frame[p].obj, frame[p].values, frame[p].next)
  /\ frame' = [frame EXCEPT ![p].next = @ + 1]
  /\ pc' = [pc EXCEPT ![p] = IF frame[p].next = Len(HitFields) THEN "reply" ELSE "write"]
  /\ UNCHANGED <<now, cache, last, storeLog, resp, fin, fout>>

\* line 188
ReturnHit(p) ==
  /\ pc[p] = "reply"
  /\ resp' = [resp EXCEPT ![p] = jsonify(heap[frame[p].obj])]
  /\ pc' = [pc EXCEPT ![p] = "done"]
  /\ UNCHANGED <<now, cache, heap, last, storeLog, frame, fin, fout>>

\* lines 191-244, f being their outcome: on success the response dict is a
\* new object that only this thread refers to.
Fetch(p, f, response) ==
  IF f.status # 200
  THEN /\ resp' = [resp EXCEPT ![p] = ErrorBody]
       /\ pc' = [pc EXCEPT ![p] = "done"]
       /\ UNCHANGED <<heap, frame>>
  ELSE /\ heap' = [o \in DOMAIN heap \cup {response} |->
                     IF o = response THEN f.response ELSE heap[o]]
       /\ frame' = [frame EXCEPT ![p].obj = response]
       /\ pc' = [pc EXCEPT ![p] = "store"]
       /\ UNCHANGED resp

FetchData(p) ==
  /\ pc[p] = "fetch"
  /\ \E replyNo \in ConcReplyNos :
       Fetch(p, Fetched[frame[p].req, replyNo], Alloc(heap))
  /\ UNCHANGED <<now, cache, last, storeLog, fin, fout>>

\* line 247: the entry replaced loses a reference.
StoreAs(p, c2) ==
  /\ cache' = c2
  /\ heap' = Collect(heap, Roots(c2, frame))
  /\ pc' = [pc EXCEPT ![p] = "return"]
  /\ UNCHANGED <<now, last, storeLog, frame, resp, fin, fout>>

Store(p) ==
  /\ pc[p] = "store"
  /\ StoreAs(p, cache_data(cache, now, Parsed[frame[p].req].ticker, frame[p].obj))

\* line 249
ReturnMiss(p) ==
  /\ pc[p] = "return"
  /\ resp' = [resp EXCEPT ![p] = jsonify(heap[frame[p].obj])]
  /\ pc' = [pc EXCEPT ![p] = "done"]
  /\ UNCHANGED <<now, cache, heap, last, storeLog, frame, fin, fout>>

\* The thread ends; its locals go.
FinishAs(p, fr) ==
  /\ frame' = fr
  /\ heap' = Collect(heap, Roots(cache, fr))
  /\ resp' = [resp EXCEPT ![p] = EmptyDict]
  /\ pc' = [pc EXCEPT ![p] = "idle"]
  /\ UNCHANGED <<now, cache, last, storeLog, fin, fout>>

Finish(p) ==
  /\ pc[p] = "done"
  /\ FinishAs(p, [frame EXCEPT ![p] = NoFrame])

ConcNext ==
  \E p \in Procs :
    \/ Begin(p)
    \/ Write(p)
    \/ ReturnHit(p)
    \/ FetchData(p)
    \/ Store(p)
    \/ ReturnMiss(p)
    \/ Finish(p)

ConcSpec == Init /\ [][ConcNext]_vars

(***************************************************************************)
(* Properties.                                                             *)
(***************************************************************************)

\* C1: for every ticker and at every time, get_cached_data returns the
\* result that the last cache_data call stored for the ticker if and only
\* if there is one and it is less than 10 minutes old; otherwise it returns
\* None, and an entry that is too old is still in the cache.
C1_Lookup ==
  \A ticker \in {Parsed[reqNo].ticker : reqNo \in SeqRequestNos} :
    /\ get_cached_data(cache, now, ticker) =
         IF ticker \in DOMAIN storeLog /\ now - storeLog[ticker].at < 10
         THEN storeLog[ticker].data
         ELSE Nil
    /\ ticker \in DOMAIN storeLog <=> ticker \in DOMAIN cache
    /\ ticker \in DOMAIN cache => cache[ticker].data \in DOMAIN heap

\* An entry that is exactly 10 minutes old: in the cache, and not returned.
C1_Stale ==
  \E ticker \in DOMAIN cache :
    /\ now - cache[ticker].timestamp = 10
    /\ get_cached_data(cache, now, ticker) = Nil
    /\ storeLog[ticker].data = cache[ticker].data

\* C2: a request whose ticker is not empty fetches from the provider if and
\* only if its cache lookup misses; a hit fetches nothing and stores
\* nothing, leaves the entry's timestamp as it is and so happens less than
\* 10 minutes after the entry's fetch; the cache is written only by a miss
\* whose fetch gave a current price and whose two scores were computed.  A
\* request that ends before its lookup touches neither provider nor cache.
C2_FetchIffMiss ==
  [][now' = now =>
       LET p   == Parsed[last'.req]
           hit == get_cached_data(cache, now, p.ticker) # Nil
       IN IF p.raised \/ p.ticker = << >>
          THEN ~last'.fetched /\ ~last'.stored /\ cache' = cache
          ELSE /\ last'.fetched <=> ~hit
               /\ hit => /\ ~last'.stored
                         /\ cache' = cache
                         /\ now - storeLog[p.ticker].at < 10
               /\ cache' # cache => last'.stored
               /\ last'.stored =>
                    /\ last'.fetched
                    /\ last'.status = 200
                    /\ Truthy(last'.body.current_price)
                    /\ last'.body.rational_score \in -50..50
                    /\ last'.body.adaptive_score \in -50..50
                    /\ cache'[p.ticker] = [data |-> last'.data, timestamp |-> now]
  ]_vars

\* A hit served some minutes after the entry was fetched.
C2_HitLater ==
  /\ last.path = "hit"
  /\ ~last.fetched
  /\ now - storeLog[last.key].at > 0
  /\ cache[last.key].timestamp = storeLog[last.key].at

\* C3: every request is answered by the taxonomy: an empty or missing
\* ticker with 400; a miss whose fundamentals give no current price with
\* 404; a failure whose text indicates throttling with 429; every other
\* failure with 500; anything else with success.
C3_Taxonomy ==
  last.req # 0 =>
    LET body   == Requests[last.req]
        empty  == "ticker" \notin DOMAIN body \/ strip(body["ticker"].s) = << >>
        text   == IF last.fetched THEN ProviderReplies[last.reply].msg
                  ELSE Parsed[last.req].msg
        failed == last.path = "raise"
    IN last.status =
         IF empty THEN 400
         ELSE IF last.path = "nodata" THEN 404
         ELSE IF failed /\ (\/ Contains(<<"r", "a", "t", "e">>, lower(text))
                            \/ Contains(<<"4", "2", "9">>, text)) THEN 429
         ELSE IF failed THEN 500
         ELSE 200

\* C4 as stated: for every weight in [0,100] and scores in [-50,50], the
\* combined score the handler computes, on the hit path and on the miss
\* path, lies in [-50,50].
C4_InRange ==
  fout.kind = "combine" =>
    /\ ~FLtInt(fout.hit, -50) /\ ~FGtInt(fout.hit, 50)
    /\ ~FLtInt(fout.miss, -50) /\ ~FGtInt(fout.miss, 50)

\* C4, amended: for every weight in [0,100] and scores in [-50,50], the hit
\* path and the miss path compute the same combined score, and the
\* combined_score they put in the response, round(combined, 2), lies in
\* [-50,50]; the unrounded double may exceed the range by a rounding error.
C4_RoundedInRange ==
  fout.kind = "combine" =>
    /\ fout.hit = fout.miss
    /\ fout.hit_rounded \in -5000..5000
    /\ fout.miss_rounded \in -5000..5000
    /\ ~FLt(fout.hit, FDyadic(-51201, 10)) /\ ~FGt(fout.hit, FDyadic(51201, 10))

\* The weight 28.5 with both scores 50: the double is above 50, the
\* response's combined_score is 50.00.
C4_Overshoot ==
  /\ fout.kind = "combine"
  /\ fin.r = 50 /\ fin.a = 50 /\ fin.k = 57 /\ fin.h = 1
  /\ FGtInt(fout.hit, 50)
  /\ fout.hit_rounded = 5000

\* C5: the recommendation is a function of the combined score alone:
\* below -20 STRONG BUY, else below -5 BUY, else above 20 STRONG SELL, else
\* above 5 SELL, else HOLD; so -20 is BUY, -5 and 5 are HOLD, 20 is SELL;
\* signal_class is the recommendation in lower case with a hyphen; the hit
\* path and the miss path agree.
C5_Buckets ==
  fout.kind = "bucket" =>
    LET unit == 2 ^ fin.h
        rec  == IF fin.k < -20 * unit THEN "STRONG BUY"
                ELSE IF fin.k < -5 * unit THEN "BUY"
                ELSE IF fin.k > 20 * unit THEN "STRONG SELL"
                ELSE IF fin.k > 5 * unit THEN "SELL"
                ELSE "HOLD"
        class == CASE rec = "STRONG BUY"  -> "strong-buy"
                   [] rec = "BUY"         -> "buy"
                   [] rec = "STRONG SELL" -> "strong-sell"
                   [] rec = "SELL"        -> "sell"
                   [] rec = "HOLD"        -> "hold"
    IN /\ fout.hit = [recommendation |-> rec, signal_class |-> class]
       /\ fout.miss = fout.hit
       /\ fin.h = 0 /\ fin.k = -30 => rec = "STRONG BUY"
       /\ fin.h = 0 /\ fin.k = -20 => rec = "BUY"
       /\ fin.h = 0 /\ fin.k = -10 => rec = "BUY"
       /\ fin.h = 0 /\ fin.k \in {-5, 0, 5} => rec = "HOLD"
       /\ fin.h = 0 /\ fin.k = 10 => rec = "SELL"
       /\ fin.h = 0 /\ fin.k = 20 => rec = "SELL"
       /\ fin.h = 0 /\ fin.k = 30 => rec = "STRONG SELL"

\* The boundary -20, bucketed BUY by both paths.
C5_Boundary ==
  /\ fout.kind = "bucket"
  /\ fin.k = -20 /\ fin.h = 0
  /\ fout.hit.recommendation = "BUY"
  /\ fout.miss.recommendation = "BUY"

\* C6: calculate_rational_score returns the sum of the four rules'
\* adjustments, clamped once to [-50,50]: P/E below 0.8 times the industry
\* P/E (default 25) -20, above 1.2 times +20; PEG below 1 -15, above 2 +15;
\* price-to-book below 1 -15, above 3 +10; profit margin above 20% -10,
\* below 5% +10; a rule is skipped only when its field is absent.
C6_SumOfRules ==
  fout.kind = "rational" =>
    LET info == fin.info
        ipe  == IF "industryPE" \in DOMAIN info THEN info["industryPE"].v ELSE 2500
        pe   == IF "trailingPE" \notin DOMAIN info THEN 0
                ELSE IF info["trailingPE"].v * 100 < 80 * ipe THEN -20
                ELSE IF info["trailingPE"].v * 100 > 120 * ipe THEN 20
                ELSE 0
        peg  == IF "pegRatio" \notin DOMAIN info THEN 0
                ELSE IF info["pegRatio"].v < 100 THEN -15
                ELSE IF info["pegRatio"].v > 200 THEN 15
                ELSE 0
        pb   == IF "priceToBook" \notin DOMAIN info THEN 0
                ELSE IF info["priceToBook"].v < 100 THEN -15
                ELSE IF info["priceToBook"].v > 300 THEN 10
                ELSE 0
        pm   == IF "profitMargins" \notin DOMAIN info THEN 0
                ELSE IF info["profitMargins"].v > 20 THEN -10
                ELSE IF info["profitMargins"].v < 5 THEN 10
                ELSE 0
        sum  == pe + peg + pb + pm
    IN fout.score = IF sum > 50 THEN 50 ELSE IF sum < -50 THEN -50 ELSE sum

\* C7: a history of fewer than 50 bars gives the score 0 and the single
\* reason "Insufficient historical data", whatever the prices and the
\* fundamentals are.
C7_Insufficient ==
  fout.kind = "adaptive" /\ ~fin.hist.raises /\ Len(fin.hist.bars) < 50 =>
    /\ fout.score = 0
    /\ fout.reasons = <<"Insufficient historical data">>

\* 49 bars of a rising market, on which the RSI rule would add 15.
C7_FortyNine ==
  /\ fout.kind = "adaptive"
  /\ Len(fin.hist.bars) = 49
  /\ RSIRule(fin.hist.bars).adj = 15
  /\ fout.score = 0
  /\ fout.reasons = <<"Insufficient historical data">>

\* C8: a hit never changes the cached rational_score and adaptive_score,
\* two successive hits on the same entry with the same weight return the
\* same combined_score, recommendation and signal_class, and every hit
\* returns the combination of the scores stored by the fetch with its own
\* weight, whatever weights the hits before it used.
C8_Idempotent ==
  /\ [](\A ticker \in DOMAIN cache :
          /\ heap[cache[ticker].data].rational_score = storeLog[ticker].rational_score
          /\ heap[cache[ticker].data].adaptive_score = storeLog[ticker].adaptive_score)
  /\ [](last.path = "hit" =>
          last.body.combined_score =
            Round2(HitCombined(storeLog[last.key].rational_score,
                               storeLog[last.key].adaptive_score,
                               Parsed[last.req].rational_weight)))
  /\ [][(/\ last.path = "hit" /\ last'.path = "hit"
         /\ last'.key = last.key
         /\ storeLog' = storeLog
         /\ Parsed[last'.req].rational_weight = Parsed[last.req].rational_weight)
        => /\ last'.body.combined_score = last.body.combined_score
           /\ last'.body.recommendation = last.body.recommendation
           /\ last'.body.signal_class = last.body.signal_class
           /\ last'.body.rational_score = last.body.rational_score
           /\ last'.body.adaptive_score = last.body.adaptive_score]_vars

\* A hit with the weight 28.5 on an entry whose two scores differ.
C8_Hit ==
  /\ last.path = "hit"
  /\ last.body.rational_weight = FDiv100(FDyadic(57, 1))
  /\ last.body.rational_score # last.body.adaptive_score
  /\ last.body.rational_score = storeLog[last.key].rational_score

\* C9: when a step of a scorer raises, the scorer returns the clamped sum
\* and the reasons of the rules before that step and skips the rest, and
\* the request still succeeds: it combines, stores and answers 200.
C9_FailSoft ==
  last.path = "miss" =>
    LET reply == ProviderReplies[last.reply]
        df    == reply.hist.bars
        rr    == <<PERule(reply.info), PEGRule(reply.info),
                   PriceToBookRule(reply.info), ProfitMarginRule(reply.info)>>
        ar    == IF reply.hist.raises THEN <<Raises>>
                 ELSE <<MA50Rule(df), MA200Rule(df), RSIRule(df),
                        RangeRule(df, reply.info)>>
        Stop(rules) == CHOOSE n \in 1..(Len(rules) + 1) :
                         /\ n = Len(rules) + 1 \/ rules[n].raises
                         /\ \A i \in 1..(n - 1) : ~rules[i].raises
        Adjs(rules) == {<<i, rules[i].adj>> : i \in 1..(Stop(rules) - 1)}
        Sum(rules)  == LET s[S \in SUBSET Adjs(rules)] ==
                             IF S = {} THEN 0
                             ELSE LET x == CHOOSE x \in S : TRUE
                                  IN x[2] + s[S \ {x}]
                       IN s[Adjs(rules)]
        Limit(n)    == IF n > 50 THEN 50 ELSE IF n < -50 THEN -50 ELSE n
        Texts(rules) == [i \in 1..(Stop(rules) - 1) |-> rules[i].reason]
        Flat(rules) == LET f[i \in 0..(Stop(rules) - 1)] ==
                             IF i = 0 THEN << >> ELSE f[i - 1] \o Texts(rules)[i]
                       IN f[Stop(rules) - 1]
        short == ~reply.hist.raises /\ Len(df) < 50
    IN /\ last.status = 200
       /\ last.stored
       /\ cache[last.key].data = last.data
       /\ heap[last.data] = last.body
       /\ last.body.rational_score = Limit(Sum(rr))
       /\ last.body.rational_reasons = Flat(rr)
       /\ ~short => /\ last.body.adaptive_score = Limit(Sum(ar))
                    /\ last.body.adaptive_reasons = Flat(ar)
       /\ last.body.combined_score =
            Round2(MissCombined(Limit(Sum(rr)), last.body.adaptive_score,
                                Parsed[last.req].rational_weight))

\* A miss whose PEG ratio is no number: the P/E rule's -20 is kept, the
\* price-to-book and margin rules are skipped, the answer is 200.
C9_PartialScore ==
  /\ last.path = "miss"
  /\ last.status = 200
  /\ PEGRule(ProviderReplies[last.reply].info).raises
  /\ PriceToBookRule(ProviderReplies[last.reply].info).adj = -15
  /\ last.body.rational_score = -20
  /\ last.body.rational_reasons = <<"Low P/E ratio">>
  /\ last.data = cache[last.key].data

\* C10: every response of a cache hit carries the combined_score,
\* recommendation, signal_class, rational_weight and adaptive_weight
\* computed from the weight of its own request, whatever other requests
\* for the same ticker are interleaved with it.
C10_OwnWeight ==
  \A p \in Procs :
    pc[p] = "done" /\ frame[p].path = "hit" =>
      LET rational_weight == Parsed[frame[p].req].rational_weight
          combined_score  == HitCombined(resp[p].rational_score,
                                         resp[p].adaptive_score, rational_weight)
      IN /\ resp[p].rational_weight = rational_weight
         /\ resp[p].adaptive_weight = FSub(FFromInt(1), rational_weight)
         /\ resp[p].combined_score = Round2(combined_score)
         /\ resp[p].recommendation = HitBucket(combined_score).recommendation
         /\ resp[p].signal_class = HitBucket(combined_score).signal_class

====
